---- MODULE Spec2Model ----
(***************************************************************************)
(* Model of lib/igt_edid.c: the encoder of the 128-byte EDID base block.   *)
(* The record is a function from byte offsets 0..127 to byte values; every *)
(* C function is an operator from a record (and its arguments) to the      *)
(* record it leaves, together with whether it returned or hit an assert.   *)
(***************************************************************************)
EXTENDS Integers, Sequences, FiniteSets, TLC

VARIABLES edid, pc, call, prev, nops

vars == <<edid, pc, call, prev, nops>>

(***************************************************************************)
(* C integer arithmetic                                                    *)
(***************************************************************************)
Pow2(n) == 2 ^ n

\* conversion to uint8_t on assignment to a byte field
ToU8(x) == x % 256

\* bits 0..15 of the two's complement pattern of an int or uint32_t value.
\* Every mask of the code lies within these bits and every result is stored
\* in a byte, so no operation of the code reads a bit above them.
Lo16(x) == x % 65536

RECURSIVE BitAnd(_, _)
BitAnd(a, b) ==
    IF a = 0 \/ b = 0 THEN 0
    ELSE (IF a % 2 = 1 /\ b % 2 = 1 THEN 1 ELSE 0) + 2 * BitAnd(a \div 2, b \div 2)

RECURSIVE BitOr(_, _)
BitOr(a, b) ==
    IF a = 0 THEN b
    ELSE IF b = 0 THEN a
    ELSE (IF a % 2 = 1 \/ b % 2 = 1 THEN 1 ELSE 0) + 2 * BitOr(a \div 2, b \div 2)

\* a & b, a | b, a << n, a >> n, on bits 0..15
And(a, b) == BitAnd(Lo16(a), Lo16(b))
Or(a, b) == BitOr(Lo16(a), Lo16(b))
Shl(a, n) == Lo16(Lo16(a) * Pow2(n))
Shr(a, n) == Lo16(a) \div Pow2(n)

(***************************************************************************)
(* Layout of struct edid (byte offsets) and of struct detailed_timing      *)
(***************************************************************************)
EDID_SIZE == 128
Offsets == 0 .. (EDID_SIZE - 1)
Byte == 0 .. 255
Records == [Offsets -> Byte]

OFF_HEADER == 0
OFF_MFG_ID == 8
OFF_MFG_YEAR == 17
OFF_VERSION == 18
OFF_REVISION == 19
OFF_INPUT == 20
OFF_WIDTH_CM == 21
OFF_HEIGHT_CM == 22
OFF_GAMMA == 23
OFF_FEATURES == 24
OFF_EST_T1 == 35
OFF_EST_T2 == 36
OFF_STD_TIMINGS == 38
OFF_DETAILED == 54
OFF_CHECKSUM == 127

STD_TIMINGS_LEN == 8
STD_TIMING_SIZE == 2
DETAILED_TIMINGS_LEN == 4
DETAILED_TIMING_SIZE == 18
STR_SIZE == 13

StdSlots == 0 .. (STD_TIMINGS_LEN - 1)
DtSlots == 0 .. (DETAILED_TIMINGS_LEN - 1)

\* &edid->standard_timings[i], &edid->detailed_timings[s]
StdOff(i) == OFF_STD_TIMINGS + STD_TIMING_SIZE * i
DtOff(s) == OFF_DETAILED + DETAILED_TIMING_SIZE * s

\* fields of struct detailed_timing, relative to the descriptor
DT_PIXEL_CLOCK == 0
PT_HACTIVE_LO == 2
PT_HBLANK_LO == 3
PT_HACTIVE_HBLANK_HI == 4
PT_VACTIVE_LO == 5
PT_VBLANK_LO == 6
PT_VACTIVE_VBLANK_HI == 7
PT_HSYNC_OFFSET_LO == 8
PT_HSYNC_PULSE_WIDTH_LO == 9
PT_VSYNC_OFFSET_PULSE_WIDTH_LO == 10
PT_HSYNC_VSYNC_HI == 11
PT_WIDTH_MM_LO == 12
PT_HEIGHT_MM_LO == 13
PT_WIDTH_HEIGHT_MM_HI == 14
PT_HBORDER == 15
PT_VBORDER == 16
PT_MISC == 17
NP_PAD1 == 2
NP_TYPE == 3
NP_PAD2 == 4
NP_DATA == 5
MR_MIN_VFREQ == 5
MR_MAX_VFREQ == 6
MR_MIN_HFREQ_KHZ == 7
MR_MAX_HFREQ_KHZ == 8
MR_PIXEL_CLOCK_MHZ == 9
MR_FLAGS == 10
MR_PAD == 11

\* enum detailed_non_pixel_type, enum std_timing_aspect, misc and mode flags
EDID_DETAIL_MONITOR_CPDATA == 251
EDID_DETAIL_MONITOR_NAME == 252
EDID_DETAIL_MONITOR_RANGE == 253
EDID_DETAIL_MONITOR_STRING == 254
EDID_DETAIL_MONITOR_SERIAL == 255
STD_TIMING_16_10 == 0
STD_TIMING_4_3 == 1
STD_TIMING_5_4 == 2
STD_TIMING_16_9 == 3
EDID_PT_HSYNC_POSITIVE == 2
EDID_PT_VSYNC_POSITIVE == 4
DRM_MODE_FLAG_PHSYNC == 1
DRM_MODE_FLAG_PVSYNC == 4

\* mutant: the last byte of the magic 0xFF like the six before it
edid_header_m == <<0, 255, 255, 255, 255, 255, 255, 255>>

edid_header == <<0, 255, 255, 255, 255, 255, 255, 0>>
monitor_range_padding == <<10, 32, 32, 32, 32, 32, 32>>

\* store one byte / a run of bytes (memcpy) / a fill (memset) into the record
Put(e, off, v) == [e EXCEPT ![off] = v]
PutSeq(e, off, s) ==
    [i \in Offsets |-> IF i >= off /\ i < off + Len(s) THEN s[i - off + 1] ELSE e[i]]
Fill(e, off, n, v) ==
    [i \in Offsets |-> IF i >= off /\ i < off + n THEN v ELSE e[i]]

\* the bytes off .. off+n-1 of the record, as a sequence
Slice(e, off, n) == [k \in 1 .. n |-> e[off + k - 1]]

Returned(e) == [ok |-> TRUE, rec |-> e]
Aborted(e) == [ok |-> FALSE, rec |-> e]

(***************************************************************************)
(* Standard timings                                                        *)
(***************************************************************************)
MIN_HSIZE == 256
MAX_HSIZE == 2288
VFREQ_BASE == 60

\* mutants of the two byte encodings: an offset of 30, a shift by 5
StdHsizeByte_m(hsize) == ToU8((hsize \div 8) - 30)
StdVfreqAspectByte_m(vfreq, aspect) == ToU8(Or(Shl(aspect, 5), vfreq - VFREQ_BASE))

\* st->hsize = hsize / 8 - 31
StdHsizeByte(hsize) == ToU8((hsize \div 8) - 31)

\* st->vfreq_aspect = aspect << 6 | (vfreq - 60)
StdVfreqAspectByte(vfreq, aspect) == ToU8(Or(Shl(aspect, 6), vfreq - VFREQ_BASE))

\* mutant: only the lower end of the hsize range asserted
std_timing_set_m(e, i, hsize, vfreq, aspect) ==
    IF ~(hsize >= MIN_HSIZE)
    THEN Aborted(e)
    ELSE Returned(Put(Put(e, StdOff(i), StdHsizeByte(hsize)),
                      StdOff(i) + 1, StdVfreqAspectByte(vfreq, aspect)))

std_timing_set(e, i, hsize, vfreq, aspect) ==
    IF ~(hsize >= MIN_HSIZE /\ hsize <= MAX_HSIZE)
    THEN Aborted(e)
    ELSE Returned(Put(Put(e, StdOff(i), StdHsizeByte(hsize)),
                      StdOff(i) + 1, StdVfreqAspectByte(vfreq, aspect)))

\* mutant: the unused slot filled with 0
std_timing_unset_m(e, i) == Fill(e, StdOff(i), STD_TIMING_SIZE, 0)

std_timing_unset(e, i) == Fill(e, StdOff(i), STD_TIMING_SIZE, 1)

(***************************************************************************)
(* Detailed timing: pixel timing of a mode                                 *)
(***************************************************************************)
MAX_12BIT == 4095
MAX_10BIT == 1023
MAX_6BIT == 63

hactive_of(mode) == mode.hdisplay
hsync_offset_of(mode) == mode.hsync_start - mode.hdisplay
hsync_pulse_width_of(mode) == mode.hsync_end - mode.hsync_start
hblank_of(mode) == mode.htotal - mode.hdisplay
vactive_of(mode) == mode.vdisplay
vsync_offset_of(mode) == mode.vsync_start - mode.vdisplay
vsync_pulse_width_of(mode) == mode.vsync_end - mode.vsync_start
vblank_of(mode) == mode.vtotal - mode.vdisplay

\* mutant: the clock rounded to the nearest unit instead of truncated
PixelClockBytes_m(clock) ==
    << ToU8(And((clock + 5) \div 10, 255)),
       ToU8(Shr(And((clock + 5) \div 10, 65280), 8)) >>

\* dt->pixel_clock[0], dt->pixel_clock[1]
PixelClockBytes(clock) ==
    << ToU8(And(clock \div 10, 255)),
       ToU8(Shr(And(clock \div 10, 65280), 8)) >>

\* x_lo = x & 0x0FF
LoByte(x) == ToU8(And(x, 255))

\* xy_hi = (x & 0xF00) >> 4 | (y & 0xF00) >> 8
SharedHiNibbles(x, y) == ToU8(Or(Shr(And(x, 3840), 4), Shr(And(y, 3840), 8)))

\* vsync_offset_pulse_width_lo = (vso & 0xF) << 4 | (vspw & 0xF)
VsyncLoByte(vso, vspw) == ToU8(Or(Shl(And(vso, 15), 4), And(vspw, 15)))

\* mutant: the two horizontal fields in each other's place
SyncHiByte_m(hso, hspw, vso, vspw) ==
    ToU8(Or(Or(Shr(And(hspw, 768), 2), Shr(And(hso, 768), 4)),
            Or(Shr(And(vso, 48), 2), Shr(And(vspw, 48), 4))))

\* hsync_vsync_offset_pulse_width_hi
SyncHiByte(hso, hspw, vso, vspw) ==
    ToU8(Or(Or(Shr(And(hso, 768), 2), Shr(And(hspw, 768), 4)),
            Or(Shr(And(vso, 48), 2), Shr(And(vspw, 48), 4))))

\* pt->misc from mode->flags
MiscByte(flags) ==
    LET m1 == IF And(flags, DRM_MODE_FLAG_PHSYNC) # 0
              THEN Or(0, EDID_PT_HSYNC_POSITIVE) ELSE 0
    IN  ToU8(IF And(flags, DRM_MODE_FLAG_PVSYNC) # 0
             THEN Or(m1, EDID_PT_VSYNC_POSITIVE) ELSE m1)

detailed_timing_set_mode(e, s, mode, width_mm, height_mm) ==
    LET dt == DtOff(s)
        hactive == hactive_of(mode)
        hblank == hblank_of(mode)
        vactive == vactive_of(mode)
        vblank == vblank_of(mode)
        hso == hsync_offset_of(mode)
        hspw == hsync_pulse_width_of(mode)
        vso == vsync_offset_of(mode)
        vspw == vsync_pulse_width_of(mode)
        e0 == PutSeq(e, dt + DT_PIXEL_CLOCK, PixelClockBytes(mode.clock))
        e1 == Put(Put(Put(e0, dt + PT_HACTIVE_LO, LoByte(hactive)),
                      dt + PT_HBLANK_LO, LoByte(hblank)),
                  dt + PT_HACTIVE_HBLANK_HI, SharedHiNibbles(hactive, hblank))
        e2 == Put(Put(Put(e1, dt + PT_VACTIVE_LO, LoByte(vactive)),
                      dt + PT_VBLANK_LO, LoByte(vblank)),
                  dt + PT_VACTIVE_VBLANK_HI, SharedHiNibbles(vactive, vblank))
        e3 == Put(Put(Put(Put(e2, dt + PT_HSYNC_OFFSET_LO, LoByte(hso)),
                          dt + PT_HSYNC_PULSE_WIDTH_LO, LoByte(hspw)),
                      dt + PT_VSYNC_OFFSET_PULSE_WIDTH_LO, VsyncLoByte(vso, vspw)),
                  dt + PT_HSYNC_VSYNC_HI, SyncHiByte(hso, hspw, vso, vspw))
        e4 == Put(Put(Put(e3, dt + PT_WIDTH_MM_LO, LoByte(width_mm)),
                      dt + PT_HEIGHT_MM_LO, LoByte(height_mm)),
                  dt + PT_WIDTH_HEIGHT_MM_HI, SharedHiNibbles(width_mm, height_mm))
    IN  IF ~(hactive <= MAX_12BIT /\ hblank <= MAX_12BIT) THEN Aborted(e0)
        ELSE IF ~(vactive <= MAX_12BIT /\ vblank <= MAX_12BIT) THEN Aborted(e1)
        ELSE IF ~(hso <= MAX_10BIT /\ hspw <= MAX_10BIT
                  /\ vso <= MAX_6BIT /\ vspw <= MAX_6BIT) THEN Aborted(e2)
        ELSE IF ~(width_mm <= MAX_12BIT /\ height_mm <= MAX_12BIT) THEN Aborted(e3)
        ELSE Returned(Put(e4, dt + PT_MISC, MiscByte(mode.flags)))

(***************************************************************************)
(* Detailed timing: monitor range of a mode                                *)
(***************************************************************************)
\* mutant: the ceiling of clock / 10000
PixelClockMhzByte_m(clock) == ToU8((clock + 9999) \div 10000)

\* mr->pixel_clock_mhz = (mode->clock / 10000) + 1
PixelClockMhzByte(clock) == ToU8((clock \div 10000) + 1)

\* the descriptor with hfreq the value of mode->clock / mode->htotal
MonitorRangeWith(e, s, mode, hfreq) ==
    LET dt == DtOff(s)
        e0 == PutSeq(e, dt + DT_PIXEL_CLOCK, <<0, 0>>)
        e1 == Put(e0, dt + NP_TYPE, EDID_DETAIL_MONITOR_RANGE)
        e2 == Put(Put(e1, dt + MR_MIN_VFREQ, ToU8(mode.vrefresh - 1)),
                  dt + MR_MAX_VFREQ, ToU8(mode.vrefresh + 1))
        e3 == Put(Put(e2, dt + MR_MIN_HFREQ_KHZ, ToU8(hfreq - 1)),
                  dt + MR_MAX_HFREQ_KHZ, ToU8(hfreq + 1))
        e4 == Put(Put(e3, dt + MR_PIXEL_CLOCK_MHZ, PixelClockMhzByte(mode.clock)),
                  dt + MR_FLAGS, 0)
    IN  PutSeq(e4, dt + MR_PAD, monitor_range_padding)

\* the record after every store of the function that does not use the
\* quotient mode->clock / mode->htotal
MonitorRangeQuotientFree(e, s, mode) ==
    LET dt == DtOff(s)
        e0 == PutSeq(e, dt + DT_PIXEL_CLOCK, <<0, 0>>)
        e1 == Put(e0, dt + NP_TYPE, EDID_DETAIL_MONITOR_RANGE)
        e2 == Put(Put(e1, dt + MR_MIN_VFREQ, ToU8(mode.vrefresh - 1)),
                  dt + MR_MAX_VFREQ, ToU8(mode.vrefresh + 1))
        e3 == Put(Put(e2, dt + MR_PIXEL_CLOCK_MHZ, PixelClockMhzByte(mode.clock)),
                  dt + MR_FLAGS, 0)
    IN  PutSeq(e3, dt + MR_PAD, monitor_range_padding)

\* every record in which each byte is the one of before or the one of after:
\* the stores leading from before to after made in part, byte by byte
Between(before, after) ==
    LET differ == {i \in Offsets : before[i] # after[i]}
    IN  {[i \in Offsets |-> IF i \in done THEN after[i] ELSE before[i]] :
            done \in SUBSET differ}

\* what the record can hold when the division by a zero htotal traps: the
\* division is undefined, so the build may place it before or after any of
\* the stores that do not use its result, and may split a store (the memcpy
\* of the padding) in parts; the stores that use the quotient are not made
MonitorRangeTrapped(e, s, mode) == Between(e, MonitorRangeQuotientFree(e, s, mode))

\* defined C behaviour (htotal # 0)
detailed_timing_set_monitor_range_mode(e, s, mode) ==
    MonitorRangeWith(e, s, mode, mode.clock \div mode.htotal)

\* every outcome, the division by zero being undefined: it traps (x86) with
\* any of the independent stores made, or it yields 0 (ARM) and the call returns
MonitorRangeOutcomes(e, s, mode) ==
    IF mode.htotal # 0
    THEN {Returned(detailed_timing_set_monitor_range_mode(e, s, mode))}
    ELSE {Aborted(r) : r \in MonitorRangeTrapped(e, s, mode)}
             \cup {Returned(MonitorRangeWith(e, s, mode, 0))}

(***************************************************************************)
(* Detailed timing: string                                                 *)
(***************************************************************************)
StringTypes ==
    {EDID_DETAIL_MONITOR_NAME, EDID_DETAIL_MONITOR_STRING, EDID_DETAIL_MONITOR_SERIAL}

\* strncpy(ds->str, str, sizeof(ds->str)): the characters, then NUL padding
Strncpy(str, n) == [k \in 1 .. n |-> IF k <= Len(str) THEN str[k] ELSE 0]

\* mutant: a newline ends the payload of a truncated string too
StringPayload_m(str) ==
    LET copied == Strncpy(str, STR_SIZE)
    IN  IF Len(str) < STR_SIZE THEN [copied EXCEPT ![Len(str) + 1] = 10]
        ELSE [copied EXCEPT ![STR_SIZE] = 10]

\* the 13 payload bytes: strncpy, then ds->str[len] = '\n' if len < sizeof
StringPayload(str) ==
    LET copied == Strncpy(str, STR_SIZE)
    IN  IF Len(str) < STR_SIZE THEN [copied EXCEPT ![Len(str) + 1] = 10] ELSE copied

\* mutant: the subtype checked after the tag bytes are written
detailed_timing_set_string_m(e, s, type, str) ==
    LET dt == DtOff(s)
        e0 == PutSeq(e, dt + DT_PIXEL_CLOCK, <<0, 0>>)
        e1 == Put(e0, dt + NP_TYPE, type)
    IN  IF type \notin StringTypes THEN Aborted(e1)
        ELSE Returned(PutSeq(e1, dt + NP_DATA, StringPayload(str)))

detailed_timing_set_string(e, s, type, str) ==
    LET dt == DtOff(s)
        e0 == PutSeq(e, dt + DT_PIXEL_CLOCK, <<0, 0>>)
        e1 == Put(e0, dt + NP_TYPE, type)
    IN  IF type \notin StringTypes THEN Aborted(e)
        ELSE Returned(PutSeq(e1, dt + NP_DATA, StringPayload(str)))

(***************************************************************************)
(* Manufacturer id, gamma                                                  *)
(***************************************************************************)
CHAR_AT == 64

\* mfg_id[0] = (mfg[0] - '@') << 2 | (mfg[1] - '@') >> 3
MfgByte0(mfg) == ToU8(Or(Shl(mfg[1] - CHAR_AT, 2), Shr(mfg[2] - CHAR_AT, 3)))

\* mutant: the second letter shifted by 4
MfgByte1_m(mfg) == ToU8(Or(Shl(mfg[2] - CHAR_AT, 4), mfg[3] - CHAR_AT))

\* mfg_id[1] = (mfg[1] - '@') << 5 | (mfg[2] - '@')
MfgByte1(mfg) == ToU8(Or(Shl(mfg[2] - CHAR_AT, 5), mfg[3] - CHAR_AT))

edid_set_mfg(e, mfg) == PutSeq(e, OFF_MFG_ID, <<MfgByte0(mfg), MfgByte1(mfg)>>)

\* a / b rounded to the nearest integer, ties to even (IEEE 754 default)
RoundNearestEven(a, b) ==
    LET q == a \div b
        r == a % b
    IN  IF 2 * r < b THEN q
        ELSE IF 2 * r > b THEN q + 1
        ELSE IF q % 2 = 0 THEN q ELSE q + 1

\* the float (24-bit significand) nearest to gamma100 / 100, as the pair
\* <<m, k>> with value m / 2^k and 2^23 <= m <= 2^24
FloatOfHundredths(gamma100) ==
    LET k == CHOOSE x \in 0 .. 25 :
                 /\ 838860800 \div Pow2(x) <= gamma100
                 /\ gamma100 < 1677721600 \div Pow2(x)
    IN  <<RoundNearestEven(gamma100 * Pow2(k), 100), k>>

\* the integer part of the float product gamma * 100: the exact product
\* m * 100 / 2^k rounded to a 24-bit significand, then truncated
FloatTimes100Floor(f) ==
    LET p == f[1] * 100
        d == IF p < 1073741824 THEN 6 ELSE 7
    IN  RoundNearestEven(p, Pow2(d)) \div Pow2(f[2] - d)

\* edid->gamma = (gamma * 100) - 100 with float gamma, the float nearest to
\* gamma100 hundredths (the subtraction is exact; the conversion to uint8_t
\* truncates, and is defined in C for 1.00 <= gamma < 3.56 only)
GammaByte(gamma100) == ToU8(FloatTimes100Floor(FloatOfHundredths(gamma100)) - 100)

edid_set_gamma(e, gamma100) == Put(e, OFF_GAMMA, GammaByte(gamma100))

(***************************************************************************)
(* Block assembler                                                         *)
(***************************************************************************)
MFG_IGT == <<73, 71, 84>>
NAME_IGT == <<73, 71, 84>>
TM_YEAR_OFFSET == 90

\* tm_year is localtime()'s year, counted from 1900
edid_init(e, tm_year) ==
    LET z  == [i \in Offsets |-> 0]
        e1 == PutSeq(z, OFF_HEADER, edid_header)
        e2 == edid_set_mfg(e1, MFG_IGT)
        e3 == Put(Put(Put(Put(Put(e2, OFF_VERSION, 1), OFF_REVISION, 3),
                          OFF_INPUT, 128), OFF_WIDTH_CM, 52), OFF_HEIGHT_CM, 30)
        e4 == Put(edid_set_gamma(e3, 220), OFF_FEATURES, 2)
        e5 == Put(e4, OFF_MFG_YEAR, ToU8(tm_year - TM_YEAR_OFFSET))
        e6 == Put(Put(e5, OFF_EST_T1, 33), OFF_EST_T2, 8)
        s0 == std_timing_set(e6, 0, 1920, 60, STD_TIMING_16_9).rec
        s1 == std_timing_set(s0, 1, 1280, 60, STD_TIMING_16_9).rec
        s2 == std_timing_set(s1, 2, 1024, 60, STD_TIMING_4_3).rec
        s3 == std_timing_set(s2, 3, 800, 60, STD_TIMING_4_3).rec
        s4 == std_timing_set(s3, 4, 640, 60, STD_TIMING_4_3).rec
    IN  std_timing_unset(std_timing_unset(std_timing_unset(s4, 5), 6), 7)

\* the outcomes of the three encoder calls that follow edid_init
edid_init_with_mode(e, tm_year, mode) ==
    LET i == edid_init(e, tm_year)
        a == detailed_timing_set_mode(i, 0, mode,
                                      i[OFF_WIDTH_CM] * 10, i[OFF_HEIGHT_CM] * 10)
        name(r) == detailed_timing_set_string(r, 2, EDID_DETAIL_MONITOR_NAME, NAME_IGT)
    IN  IF ~a.ok THEN {a}
        ELSE IF mode.htotal # 0
        THEN {name(detailed_timing_set_monitor_range_mode(a.rec, 1, mode))}
        ELSE {Aborted(r) :
                 r \in Between(a.rec, name(MonitorRangeQuotientFree(a.rec, 1, mode)).rec)}
             \cup {name(MonitorRangeWith(a.rec, 1, mode, 0))}

(***************************************************************************)
(* Checksum finalizer                                                      *)
(***************************************************************************)
\* the loop body sum = sum + buf[i], in uint8_t, for i = lo .. hi-1
RECURSIVE SumLoop(_, _, _, _)
SumLoop(e, sum, lo, hi) ==
    IF lo >= hi THEN sum ELSE SumLoop(e, ToU8(sum + e[lo]), lo + 1, hi)

\* the same loop over i = lo .. n-1, run sixteen iterations at a time
RECURSIVE SumFrom(_, _, _, _)
SumFrom(e, sum, lo, n) ==
    IF lo >= n THEN sum
    ELSE LET hi == IF lo + 16 < n THEN lo + 16 ELSE n
             part == SumLoop(e, sum, lo, hi)
         IN  IF part \in Byte THEN SumFrom(e, part, hi, n) ELSE part

\* sum over buf[0 .. n-1], starting from sum = 0
SumBytes(e, n) == SumFrom(e, 0, 0, n)

\* mutant: the one's complement of the sum
ChecksumByte_m(sum) == ToU8(255 - sum)

\* edid->checksum = 256 - sum
ChecksumByte(sum) == ToU8(256 - sum)

\* mutant: the sum taken over all 128 bytes, the old checksum included
edid_update_checksum_m(e) ==
    Put(e, OFF_CHECKSUM, ChecksumByte(SumBytes(e, EDID_SIZE)))

edid_update_checksum(e) ==
    Put(e, OFF_CHECKSUM, ChecksumByte(SumBytes(e, EDID_SIZE - 1)))

(***************************************************************************)
(* Inputs                                                                  *)
(***************************************************************************)
U16 == 0 .. 65535

\* drmModeModeInfo: h = <<hdisplay, hsync_start, hsync_end, htotal>>, v likewise
MkMode(clock, h, v, vrefresh, flags) ==
    [clock |-> clock,
     hdisplay |-> h[1], hsync_start |-> h[2], hsync_end |-> h[3], htotal |-> h[4],
     vdisplay |-> v[1], vsync_start |-> v[2], vsync_end |-> v[3], vtotal |-> v[4],
     vrefresh |-> vrefresh, flags |-> flags]

\* a mode from the quantities the encoder derives: <<active, blank, offset, width>>
ModeOfTimings(clock, ht, vt, vrefresh, flags) ==
    MkMode(clock,
           <<ht[1], ht[1] + ht[3], ht[1] + ht[3] + ht[4], ht[1] + ht[2]>>,
           <<vt[1], vt[1] + vt[3], vt[1] + vt[3] + vt[4], vt[1] + vt[2]>>,
           vrefresh, flags)

\* the fields of a mode are uint16_t, but for clock, vrefresh and flags (uint32_t)
IsMode(m) ==
    /\ {m.hdisplay, m.hsync_start, m.hsync_end, m.htotal} \subseteq U16
    /\ {m.vdisplay, m.vsync_start, m.vsync_end, m.vtotal} \subseteq U16
    /\ m.clock >= 0
    /\ m.vrefresh >= 0

H_1080P == <<1920, 280, 88, 44>>
V_1080P == <<1080, 45, 4, 5>>
MODE_1080P == ModeOfTimings(148500, H_1080P, V_1080P, 60, 5)
MODE_SVGA == ModeOfTimings(40000, <<800, 256, 40, 128>>, <<600, 28, 1, 4>>, 60, 5)
\* a mode whose pixel clock is below one 10 kHz unit
MODE_SLOW == [MODE_1080P EXCEPT !.clock = 5]
\* a mode wider than 12 bits
MODE_WIDE == ModeOfTimings(594000, <<4096, 304, 8, 32>>, <<2160, 62, 48, 8>>, 60, 5)

NoMode == MkMode(0, <<0, 0, 0, 0>>, <<0, 0, 0, 0>>, 0, 0)

NoCall ==
    [op |-> "none", slot |-> 0, mode |-> NoMode, width_mm |-> 0, height_mm |-> 0,
     type |-> 0, str |-> <<>>, hsize |-> 0, vfreq |-> 0, aspect |-> 0,
     mfg |-> <<>>, tm_year |-> 0]

\* what the caller's buffer may hold before the first call
PatternRecord(a, b) == [i \in Offsets |-> ToU8(a * i + b)]
Priors == {PatternRecord(0, 0), PatternRecord(0, 255), PatternRecord(0, 1),
           PatternRecord(7, 3)}

\* years since 1900 that time() may report
Years == {119, 126}

\* a string of n characters, none of them NUL, starting at character base
StrOf(n, base) == [k \in 1 .. n |-> 1 + ((base + k - 2) % 255)]

(***************************************************************************)
(* Calls on a record: the life of one caller-owned buffer                  *)
(***************************************************************************)
MaxOps == 3

InitModes == {MODE_1080P, MODE_SLOW, MODE_WIDE}
MainModes == {MODE_1080P}
RangeModes == {MODE_SVGA}
MainStrings == {StrOf(14, 65)}

Init ==
    /\ edid \in {PatternRecord(0, 0), PatternRecord(7, 3)}
    /\ pc = "start"
    /\ call = NoCall
    /\ prev = edid
    /\ nops = 0

\* the call c ends with outcome out
Apply(c, out) ==
    /\ edid' = out.rec
    /\ pc' = IF out.ok THEN "ready" ELSE "aborted"
    /\ call' = c
    /\ prev' = edid
    /\ nops' = nops + 1

CanCall == pc # "aborted" /\ nops < MaxOps

EdidInit ==
    /\ CanCall
    /\ \E y \in Years :
         Apply([NoCall EXCEPT !.op = "edid_init", !.tm_year = y],
               Returned(edid_init(edid, y)))

EdidInitWithMode ==
    /\ CanCall
    /\ \E y \in Years, m \in InitModes :
         \E out \in edid_init_with_mode(edid, y, m) :
            Apply([NoCall EXCEPT !.op = "edid_init_with_mode", !.tm_year = y,
                                 !.mode = m], out)

DetailedTimingSetMode ==
    /\ CanCall
    /\ \E s \in DtSlots, m \in MainModes :
         Apply([NoCall EXCEPT !.op = "detailed_timing_set_mode", !.slot = s,
                              !.mode = m, !.width_mm = 520, !.height_mm = 300],
               detailed_timing_set_mode(edid, s, m, 520, 300))

DetailedTimingSetMonitorRangeMode ==
    /\ CanCall
    /\ \E s \in DtSlots, m \in RangeModes :
         \E out \in MonitorRangeOutcomes(edid, s, m) :
            Apply([NoCall EXCEPT !.op = "detailed_timing_set_monitor_range_mode",
                                 !.slot = s, !.mode = m], out)

DetailedTimingSetString ==
    /\ CanCall
    /\ \E s \in DtSlots, str \in MainStrings :
         Apply([NoCall EXCEPT !.op = "detailed_timing_set_string", !.slot = s,
                              !.type = EDID_DETAIL_MONITOR_NAME, !.str = str],
               detailed_timing_set_string(edid, s, EDID_DETAIL_MONITOR_NAME, str))

EdidUpdateChecksum ==
    /\ CanCall
    /\ Apply([NoCall EXCEPT !.op = "edid_update_checksum"],
             Returned(edid_update_checksum(edid)))

Next ==
    \/ EdidInit
    \/ EdidInitWithMode
    \/ DetailedTimingSetMode
    \/ DetailedTimingSetMonitorRangeMode
    \/ DetailedTimingSetString
    \/ EdidUpdateChecksum

Spec == Init /\ [][Next]_vars

(***************************************************************************)
(* One call of one encoder on a buffer holding arbitrary bytes             *)
(***************************************************************************)
UnitInit ==
    /\ edid \in Priors
    /\ pc = "start"
    /\ call = NoCall
    /\ prev = edid
    /\ nops = 0

FirstCall == pc = "start" /\ nops = 0

\* how far the inputs reach past the range std_timing_set asserts
HsizeSlack == 8
\* how far the inputs reach past the refresh rates 60 .. 123 that fit 6 bits
VfreqSlack == 1

HsizeInputs ==
    {h \in (MIN_HSIZE - HsizeSlack) .. (MAX_HSIZE + HsizeSlack) :
        h % 8 = 0 \/ h < MIN_HSIZE + 16 \/ h > MAX_HSIZE - 16}
VfreqInputs == (VFREQ_BASE - VfreqSlack) .. (VFREQ_BASE + 63 + VfreqSlack)
AspectInputs == {STD_TIMING_16_10, STD_TIMING_4_3, STD_TIMING_5_4, STD_TIMING_16_9}

StdInit == UnitInit /\ edid = PatternRecord(7, 3)

StdTimingSet ==
    /\ FirstCall
    /\ \E i \in {0, STD_TIMINGS_LEN - 1}, h \in HsizeInputs, f \in VfreqInputs,
          a \in AspectInputs :
         Apply([NoCall EXCEPT !.op = "std_timing_set", !.slot = i, !.hsize = h,
                              !.vfreq = f, !.aspect = a],
               std_timing_set(edid, i, h, f, a))

StdTimingUnset ==
    /\ FirstCall
    /\ \E i \in StdSlots :
         Apply([NoCall EXCEPT !.op = "std_timing_unset", !.slot = i],
               Returned(std_timing_unset(edid, i)))

NextStd == StdTimingSet \/ StdTimingUnset

SpecStd == StdInit /\ [][NextStd]_vars

\* the characters '@' .. '_', whose offset from '@' fits 5 bits
MfgChars == CHAR_AT .. (CHAR_AT + 31)

EdidSetMfg ==
    /\ FirstCall
    /\ \E c1 \in MfgChars, c2 \in MfgChars, c3 \in MfgChars :
         Apply([NoCall EXCEPT !.op = "edid_set_mfg", !.mfg = <<c1, c2, c3>>],
               Returned(edid_set_mfg(edid, <<c1, c2, c3>>)))

NextMfg == EdidSetMfg

SpecMfg == StdInit /\ [][NextMfg]_vars

(***************************************************************************)
(* One call of detailed_timing_set_mode                                    *)
(***************************************************************************)
\* 12-bit quantities (active, blank), around the asserted limit 0xFFF
Active12 == {0, 1920, 2652, MAX_12BIT, MAX_12BIT + 1}
Blank12 == {0, 280, 1443, MAX_12BIT, MAX_12BIT + 1}
\* 10-bit and 6-bit quantities (sync offset, pulse width), around their limits
Sync10 == {0, 88, 677, MAX_10BIT, MAX_10BIT + 1}
Sync6 == {0, 5, 42, MAX_6BIT, MAX_6BIT + 1}
\* physical sizes in mm, around the asserted limit 0xFFF
SizeMm == {-1, 0, 300, 520, 2748, MAX_12BIT, MAX_12BIT + 1}
\* how many pixel clocks around 148500 kHz are tried one by one
ClockSpan == 12
ClockInputs ==
    {0, 5, 9, 10, 19, 25175, 40000, 655349, 655350, 655359, 655360, 655365, 1310725}
        \cup (148495 .. (148495 + ClockSpan))
FlagInputs == {0, 1, 2, 4, 5, 7}

ActiveBlankModes ==
    {ModeOfTimings(148500, <<hd, hb, 88, 44>>, <<vd, vb, 4, 5>>, 60, 5) :
        hd \in Active12, hb \in Blank12, vd \in Active12, vb \in Blank12}
SyncModes ==
    {ModeOfTimings(148500, <<1920, 280, ho, hp>>, <<1080, 45, vo, vp>>, 60, 5) :
        ho \in Sync10, hp \in Sync10, vo \in Sync6, vp \in Sync6}
ClockModes ==
    {[MODE_1080P EXCEPT !.clock = c, !.flags = f] : c \in ClockInputs, f \in FlagInputs}
\* modes whose total or sync position lies before the value it is subtracted from
BackwardModes ==
    {MkMode(148500, h, <<1080, 1084, 1089, 1125>>, 60, 5) :
        h \in {<<1920, 2008, 2052, 1900>>, <<1920, 1900, 2052, 2200>>,
               <<1920, 2008, 2000, 2200>>}}
    \cup {MkMode(148500, <<1920, 2008, 2052, 2200>>, v, 60, 5) :
        v \in {<<1080, 1084, 1089, 1070>>, <<1080, 1070, 1089, 1125>>,
               <<1080, 1084, 1080, 1125>>}}

PixelTimingInputs ==
    {<<m, 520, 300>> : m \in {x \in ActiveBlankModes \cup SyncModes \cup ClockModes
                                      \cup BackwardModes : IsMode(x)}}
    \cup {<<MODE_1080P, w, h>> : w \in SizeMm, h \in SizeMm}

UnitSetMode ==
    /\ FirstCall
    /\ \E s \in DtSlots, in \in PixelTimingInputs :
         Apply([NoCall EXCEPT !.op = "detailed_timing_set_mode", !.slot = s,
                              !.mode = in[1], !.width_mm = in[2], !.height_mm = in[3]],
               detailed_timing_set_mode(edid, s, in[1], in[2], in[3]))

NextSetMode == UnitSetMode

SpecSetMode == UnitInit /\ [][NextSetMode]_vars

(***************************************************************************)
(* One call of detailed_timing_set_monitor_range_mode                      *)
(***************************************************************************)
RangeClocks ==
    {0, 9999, 10000, 25175, 40000, 148500, 150000, 594000, 2539999, 2540000,
     2550000, 2560000}
RangeHtotals == {1, 800, 1056, 2200, 65535}
RangeVrefresh == {0, 1, 24, 60, 144, 254, 255, 256, 257}

\* modes whose htotal is 0: the division is undefined
ZeroHtotalInputs ==
    {[MODE_1080P EXCEPT !.clock = 40000, !.htotal = 0],
     [MODE_1080P EXCEPT !.clock = 2550000, !.htotal = 0, !.vrefresh = 0]}

RangeInputs ==
    {[MODE_1080P EXCEPT !.clock = c, !.htotal = ht, !.vrefresh = r] :
        c \in RangeClocks, ht \in RangeHtotals, r \in RangeVrefresh}
    \cup ZeroHtotalInputs

UnitSetMonitorRange ==
    /\ FirstCall
    /\ \E s \in DtSlots, m \in RangeInputs :
         \E out \in MonitorRangeOutcomes(edid, s, m) :
            Apply([NoCall EXCEPT !.op = "detailed_timing_set_monitor_range_mode",
                                 !.slot = s, !.mode = m], out)

NextSetMonitorRange == UnitSetMonitorRange

SpecSetMonitorRange == UnitInit /\ [][NextSetMonitorRange]_vars

(***************************************************************************)
(* One call of detailed_timing_set_string                                  *)
(***************************************************************************)
\* the longest string tried
MaxStrLen == 20

StringInputs == {StrOf(n, b) : n \in 0 .. MaxStrLen, b \in {10, 65, 97, 250}}
TypeInputs ==
    StringTypes \cup {0, 16, EDID_DETAIL_MONITOR_CPDATA, EDID_DETAIL_MONITOR_RANGE}

UnitSetString ==
    /\ FirstCall
    /\ \E s \in DtSlots, ty \in TypeInputs, str \in StringInputs :
         Apply([NoCall EXCEPT !.op = "detailed_timing_set_string", !.slot = s,
                              !.type = ty, !.str = str],
               detailed_timing_set_string(edid, s, ty, str))

NextSetString == UnitSetString

SpecSetString == UnitInit /\ [][NextSetString]_vars

(***************************************************************************)
(* One call of either encoder that asserts on its numeric arguments        *)
(***************************************************************************)
NextAsserting == StdTimingSet \/ UnitSetMode

SpecAsserting == StdInit /\ [][NextAsserting]_vars

(***************************************************************************)
(* Properties                                                              *)
(***************************************************************************)
\* the plain integer sum of the bytes lo .. hi of a record
RECURSIVE RangeSum(_, _, _)
RangeSum(e, lo, hi) ==
    IF lo = hi THEN e[lo]
    ELSE LET mid == (lo + hi) \div 2
         IN  RangeSum(e, lo, mid) + RangeSum(e, mid + 1, hi)

\* the call that led to the present state, and whether it returned
Called(op) == call.op = op
ReturnedFrom(op) == call.op = op /\ pc = "ready"

\* C1: right after edid_update_checksum, whatever calls came before it, the
\* 128 bytes sum to 0 modulo 256 and byte 127 is (256 - sum of bytes 0..126)
\* modulo 256.
C1_ChecksumZero ==
    Called("edid_update_checksum") =>
        /\ RangeSum(edid, 0, EDID_SIZE - 1) % 256 = 0
        /\ edid[OFF_CHECKSUM] = (256 - RangeSum(edid, 0, EDID_SIZE - 2)) % 256

\* a checksum computed over an initialized record that other calls had changed
C1_Witness ==
    /\ Called("edid_update_checksum")
    /\ Slice(edid, OFF_HEADER, 8) = edid_header
    /\ edid[DtOff(3) + NP_TYPE] = EDID_DETAIL_MONITOR_NAME
    /\ edid[OFF_CHECKSUM] # prev[OFF_CHECKSUM]
    /\ edid[OFF_CHECKSUM] # 0

\* the inverse unpacking of a standard-timing slot: <<hsize, vfreq, aspect>>
StdBytes(e, i) == Slice(e, StdOff(i), STD_TIMING_SIZE)
StdDecode(e, i) ==
    << (e[StdOff(i)] + 31) * 8, (e[StdOff(i) + 1] % 64) + 60, e[StdOff(i) + 1] \div 64 >>

\* the inputs the standard-timing encoding is specified for
StdValid(hsize, vfreq, aspect) ==
    /\ hsize % 8 = 0 /\ hsize >= 256 /\ hsize <= 2288
    /\ vfreq >= 60 /\ vfreq <= 123
    /\ aspect \in 0 .. 3

\* C2: for hsize a multiple of 8 in [256,2288], vfreq in [60,123] and every
\* aspect, std_timing_set returns, byte0 = hsize/8 - 31, byte1 = aspect*64 +
\* (vfreq - 60), and the inverse unpacking recovers hsize, vfreq and aspect.
C2_StdRoundTrip ==
    (Called("std_timing_set") /\ StdValid(call.hsize, call.vfreq, call.aspect)) =>
        /\ pc = "ready"
        /\ StdBytes(edid, call.slot) =
              << (call.hsize \div 8) - 31, call.aspect * 64 + (call.vfreq - 60) >>
        /\ StdDecode(edid, call.slot) = <<call.hsize, call.vfreq, call.aspect>>

\* the largest valid input of every kind, encoded
C2_Witness ==
    /\ ReturnedFrom("std_timing_set")
    /\ call.hsize = 2288 /\ call.vfreq = 123 /\ call.aspect = 3
    /\ StdBytes(edid, call.slot) = <<255, 255>>

\* C3 as stated: no valid hsize, vfreq and aspect make std_timing_set produce
\* the bytes 0x01, 0x01 that std_timing_unset writes.
C3_SentinelNeverEncoded ==
    (ReturnedFrom("std_timing_set")
        /\ StdValid(call.hsize, call.vfreq, call.aspect)) =>
        StdBytes(edid, call.slot) # <<1, 1>>

\* C3 amended: std_timing_unset leaves 0x01, 0x01 in the slot, and a valid
\* std_timing_set produces these two bytes for exactly one input: hsize 256,
\* vfreq 61, aspect 0 (16:10).
C3_SentinelEncodedOnce ==
    /\ Called("std_timing_unset") =>
          /\ StdBytes(edid, call.slot) = <<1, 1>>
          /\ \A i \in Offsets \ {StdOff(call.slot), StdOff(call.slot) + 1} :
                edid[i] = prev[i]
    /\ (ReturnedFrom("std_timing_set")
          /\ StdValid(call.hsize, call.vfreq, call.aspect)) =>
          (StdBytes(edid, call.slot) = <<1, 1>>
              <=> (call.hsize = 256 /\ call.vfreq = 61 /\ call.aspect = 0))

\* the valid encoding that equals the sentinel
C3_Witness ==
    /\ ReturnedFrom("std_timing_set")
    /\ StdValid(call.hsize, call.vfreq, call.aspect)
    /\ StdBytes(edid, call.slot) = <<1, 1>>
    /\ StdBytes(prev, call.slot) # <<1, 1>>

\* byte k of the descriptor the last call was made on
D(k) == edid[DtOff(call.slot) + k]

InRange(x, max) == x >= 0 /\ x <= max

\* the preconditions of the pixel-timing encoding
PixelTimingPre ==
    /\ InRange(hactive_of(call.mode), 4095) /\ InRange(hblank_of(call.mode), 4095)
    /\ InRange(vactive_of(call.mode), 4095) /\ InRange(vblank_of(call.mode), 4095)
    /\ InRange(hsync_offset_of(call.mode), 1023)
    /\ InRange(hsync_pulse_width_of(call.mode), 1023)
    /\ InRange(vsync_offset_of(call.mode), 63)
    /\ InRange(vsync_pulse_width_of(call.mode), 63)
    /\ InRange(call.width_mm, 4095) /\ InRange(call.height_mm, 4095)

\* C4: when every quantity is within its field, detailed_timing_set_mode
\* returns and each quantity is recovered from its low byte (or nibble) and
\* its bits of the shared high byte: active in the top and blank in the bottom
\* nibble (likewise width_mm and height_mm), the sync high bits at 7-6
\* (hsync offset), 5-4 (hsync pulse width), 3-2 (vsync offset), 1-0 (vsync
\* pulse width).
C4_PackedFieldsRecovered ==
    (Called("detailed_timing_set_mode") /\ PixelTimingPre) =>
        /\ pc = "ready"
        /\ hactive_of(call.mode) = D(2) + 256 * (D(4) \div 16)
        /\ hblank_of(call.mode) = D(3) + 256 * (D(4) % 16)
        /\ vactive_of(call.mode) = D(5) + 256 * (D(7) \div 16)
        /\ vblank_of(call.mode) = D(6) + 256 * (D(7) % 16)
        /\ hsync_offset_of(call.mode) = D(8) + 256 * (D(11) \div 64)
        /\ hsync_pulse_width_of(call.mode) = D(9) + 256 * ((D(11) \div 16) % 4)
        /\ vsync_offset_of(call.mode) = (D(10) \div 16) + 16 * ((D(11) \div 4) % 4)
        /\ vsync_pulse_width_of(call.mode) = (D(10) % 16) + 16 * (D(11) % 4)
        /\ call.width_mm = D(12) + 256 * (D(14) \div 16)
        /\ call.height_mm = D(13) + 256 * (D(14) % 16)

\* four sync quantities with different high bits, packed into one byte
C4_Witness ==
    /\ ReturnedFrom("detailed_timing_set_mode")
    /\ PixelTimingPre
    /\ hsync_offset_of(call.mode) = 1023 /\ hsync_pulse_width_of(call.mode) = 677
    /\ vsync_offset_of(call.mode) = 5 /\ vsync_pulse_width_of(call.mode) = 42
    /\ D(11) = 226

\* the 16-bit little-endian value of the two pixel-clock bytes
StoredPixelClock == D(0) + 256 * D(1)

\* C5 as stated: the pixel-clock bytes hold the clock rounded to the nearest
\* 10 kHz unit, whenever the rounded value fits in 16 bits.
C5_ClockRoundedToNearest ==
    (ReturnedFrom("detailed_timing_set_mode")
        /\ (call.mode.clock + 5) \div 10 <= 65535) =>
        StoredPixelClock = (call.mode.clock + 5) \div 10

\* C5 amended: the pixel-clock bytes hold, little-endian, the clock divided by
\* 10 and rounded down, whenever that value fits in 16 bits.
C5_ClockTruncated ==
    (ReturnedFrom("detailed_timing_set_mode") /\ call.mode.clock \div 10 <= 65535) =>
        StoredPixelClock = call.mode.clock \div 10

\* a clock whose nearest unit is the next one up
C5_Witness ==
    /\ ReturnedFrom("detailed_timing_set_mode")
    /\ call.mode.clock = 148506
    /\ D(0) = 2 /\ D(1) = 58

\* the 13 payload bytes of the descriptor the last call was made on
Payload == Slice(edid, DtOff(call.slot) + NP_DATA, STR_SIZE)
DescriptorOffsets(s) == DtOff(s) .. (DtOff(s) + DETAILED_TIMING_SIZE - 1)

\* C6: for a string of length L and each of the three string subtypes the
\* payload holds the first min(L,13) characters; if L < 13 byte L is 0x0A and
\* the bytes after it 0; if L >= 13 the payload is the first 13 characters;
\* no byte outside the descriptor changes.
C6_StringPayload ==
    (Called("detailed_timing_set_string") /\ call.type \in StringTypes) =>
        LET L == Len(call.str)
        IN  /\ pc = "ready"
            /\ \A k \in 1 .. STR_SIZE : k <= L => Payload[k] = call.str[k]
            /\ L < STR_SIZE =>
                  /\ Payload[L + 1] = 10
                  /\ \A k \in (L + 2) .. STR_SIZE : Payload[k] = 0
            /\ L >= STR_SIZE => Payload = SubSeq(call.str, 1, STR_SIZE)
            /\ \A i \in Offsets \ DescriptorOffsets(call.slot) : edid[i] = prev[i]

\* a string longer than the payload, written over other bytes, its last kept
\* character in the last payload byte
C6_Witness ==
    /\ ReturnedFrom("detailed_timing_set_string")
    /\ Len(call.str) > STR_SIZE
    /\ Payload[STR_SIZE] = call.str[STR_SIZE]
    /\ Payload[STR_SIZE] # 10
    /\ Payload # Slice(prev, DtOff(call.slot) + NP_DATA, STR_SIZE)

RangeTagged ==
    /\ D(0) = 0 /\ D(1) = 0
    /\ D(NP_TYPE) = EDID_DETAIL_MONITOR_RANGE
    /\ Slice(edid, DtOff(call.slot) + MR_PAD, 7) = <<10, 32, 32, 32, 32, 32, 32>>

Hfreq == call.mode.clock \div call.mode.htotal

\* C7 as stated: for every mode with htotal > 0 the bytes are exactly
\* vrefresh -+ 1, clock/htotal -+ 1 and the ceiling of clock/10000, none of
\* them wrapped modulo 256.
C7_RangeExactForEveryMode ==
    (Called("detailed_timing_set_monitor_range_mode") /\ call.mode.htotal > 0) =>
        /\ pc = "ready"
        /\ RangeTagged
        /\ D(5) = call.mode.vrefresh - 1 /\ D(6) = call.mode.vrefresh + 1
        /\ D(7) = Hfreq - 1 /\ D(8) = Hfreq + 1
        /\ D(9) = (call.mode.clock + 9999) \div 10000

\* C7 amended: for every mode with htotal > 0 the call returns with the
\* pixel-clock bytes zero, the monitor-range tag and the padding; the refresh
\* bytes are vrefresh -+ 1 when 1 <= vrefresh <= 254, the horizontal bytes
\* clock/htotal -+ 1 when 1 <= clock/htotal <= 254, and the pixel-clock byte
\* is clock/10000 + 1 (integer division: above the ceiling by one when clock
\* is a multiple of 10000) when clock/10000 <= 254; each minimum is then at
\* most and each maximum at least the mode's value.  Outside these ranges the
\* stored byte is the value modulo 256.
C7_RangeExactWhenFits ==
    (Called("detailed_timing_set_monitor_range_mode") /\ call.mode.htotal > 0) =>
        /\ pc = "ready"
        /\ RangeTagged
        /\ D(5) = (call.mode.vrefresh - 1) % 256 /\ D(6) = (call.mode.vrefresh + 1) % 256
        /\ D(7) = (Hfreq - 1) % 256 /\ D(8) = (Hfreq + 1) % 256
        /\ D(9) = ((call.mode.clock \div 10000) + 1) % 256
        /\ InRange(call.mode.vrefresh - 1, 253) =>
              /\ D(5) = call.mode.vrefresh - 1 /\ D(6) = call.mode.vrefresh + 1
              /\ D(5) <= call.mode.vrefresh /\ call.mode.vrefresh <= D(6)
        /\ InRange(Hfreq - 1, 253) =>
              /\ D(7) = Hfreq - 1 /\ D(8) = Hfreq + 1
              /\ D(7) * call.mode.htotal <= call.mode.clock
              /\ call.mode.clock <= D(8) * call.mode.htotal
        /\ call.mode.clock \div 10000 <= 254 =>
              /\ D(9) = (call.mode.clock \div 10000) + 1
              /\ D(9) * 10000 > call.mode.clock

\* a mode whose every value fits and whose clock is a whole number of 10 MHz
C7_Witness ==
    /\ ReturnedFrom("detailed_timing_set_monitor_range_mode")
    /\ call.mode.clock = 40000 /\ call.mode.htotal = 1056 /\ call.mode.vrefresh = 60
    /\ D(5) = 59 /\ D(6) = 61 /\ D(7) = 36 /\ D(8) = 38 /\ D(9) = 5

\* the inverse unpacking of the manufacturer id: the three letters
MfgDecode(e) ==
    LET b0 == e[OFF_MFG_ID]
        b1 == e[OFF_MFG_ID + 1]
    IN  << 64 + ((b0 \div 4) % 32), 64 + ((b0 % 4) * 8 + (b1 \div 32)), 64 + (b1 % 32) >>

Uppercase == 65 .. 90

\* C8: for every three uppercase letters edid_set_mfg leaves the top bit of
\* byte 0 clear and the inverse unpacking (5 bits a letter, big-endian over
\* the two bytes, 1 for 'A') recovers the letters; "IGT" becomes 0x24, 0xF4.
C8_MfgRoundTrip ==
    (Called("edid_set_mfg") /\ \A k \in 1 .. 3 : call.mfg[k] \in Uppercase) =>
        /\ edid[OFF_MFG_ID] < 128
        /\ MfgDecode(edid) = call.mfg
        /\ call.mfg = MFG_IGT => Slice(edid, OFF_MFG_ID, 2) = <<36, 244>>

\* "IGT" encoded over other bytes
C8_Witness ==
    /\ ReturnedFrom("edid_set_mfg")
    /\ call.mfg = <<73, 71, 84>>
    /\ MfgDecode(edid) = <<73, 71, 84>>
    /\ MfgDecode(prev) # <<73, 71, 84>>

\* C9: after edid_init, whatever the record held, standard-timing slots 0..4
\* hold non-sentinel encodings of 1920/60/16:9, 1280/60/16:9, 1024/60/4:3,
\* 800/60/4:3, 640/60/4:3 in this order and slots 5..7 hold 0x01, 0x01.
C9_InitStandardTimings ==
    Called("edid_init") =>
        /\ pc = "ready"
        /\ StdDecode(edid, 0) = <<1920, 60, STD_TIMING_16_9>>
        /\ StdDecode(edid, 1) = <<1280, 60, STD_TIMING_16_9>>
        /\ StdDecode(edid, 2) = <<1024, 60, STD_TIMING_4_3>>
        /\ StdDecode(edid, 3) = <<800, 60, STD_TIMING_4_3>>
        /\ StdDecode(edid, 4) = <<640, 60, STD_TIMING_4_3>>
        /\ \A i \in 0 .. 4 : StdBytes(edid, i) # <<1, 1>>
        /\ \A i \in 5 .. 7 : StdBytes(edid, i) = <<1, 1>>

\* edid_init on a record whose standard-timing slots held other bytes
C9_Witness ==
    /\ ReturnedFrom("edid_init")
    /\ \A i \in StdSlots : StdBytes(prev, i) # StdBytes(edid, i)
    /\ prev[StdOff(7)] > 1
    /\ StdBytes(edid, 0) = <<209, 192>>

\* descriptor s of the record, and its pixel-clock field
Descriptor(s) == Slice(edid, DtOff(s), DETAILED_TIMING_SIZE)
PixelClockField(s) == Slice(edid, DtOff(s) + DT_PIXEL_CLOCK, 2)

\* C10: after edid_init_with_mode returns, slot 0 (the mode's pixel timing)
\* has a nonzero pixel-clock field, slot 1 a zero one and the monitor-range
\* tag, slot 2 a zero one, the monitor-name tag and the payload "IGT", 0x0A,
\* and slot 3 is eighteen zero bytes: a slot is a pixel timing exactly when
\* its first two bytes are nonzero.
C10_PixelTimingIffClockNonzero ==
    ReturnedFrom("edid_init_with_mode") =>
        /\ PixelClockField(0) # <<0, 0>>
        /\ PixelClockField(1) = <<0, 0>>
        /\ edid[DtOff(1) + NP_TYPE] = EDID_DETAIL_MONITOR_RANGE
        /\ PixelClockField(2) = <<0, 0>>
        /\ edid[DtOff(2) + NP_TYPE] = EDID_DETAIL_MONITOR_NAME
        /\ Slice(edid, DtOff(2) + NP_DATA, 4) = <<73, 71, 84, 10>>
        /\ Descriptor(3) = [k \in 1 .. DETAILED_TIMING_SIZE |-> 0]

\* a quantity of the last detailed_timing_set_mode call exceeds its field
ExceedsField ==
    \/ hactive_of(call.mode) > 4095 \/ hblank_of(call.mode) > 4095
    \/ vactive_of(call.mode) > 4095 \/ vblank_of(call.mode) > 4095
    \/ hsync_offset_of(call.mode) > 1023 \/ hsync_pulse_width_of(call.mode) > 1023
    \/ vsync_offset_of(call.mode) > 63 \/ vsync_pulse_width_of(call.mode) > 63
    \/ call.width_mm > 4095 \/ call.height_mm > 4095

\* C11: std_timing_set aborts whenever hsize is outside [256,2288], and
\* detailed_timing_set_mode aborts whenever an active or blank exceeds 0xFFF,
\* a horizontal sync offset or pulse width 0x3FF, a vertical one 0x3F, or
\* width_mm or height_mm 0xFFF: no such call returns normally.
C11_OutOfRangeIsFatal ==
    /\ (Called("std_timing_set") /\ (call.hsize < 256 \/ call.hsize > 2288)) =>
          pc = "aborted"
    /\ (Called("detailed_timing_set_mode") /\ ExceedsField) => pc = "aborted"

\* the last assertion firing alone: height_mm one past 0xFFF, after the
\* earlier fields of the descriptor were written
C11_Witness ==
    /\ Called("detailed_timing_set_mode")
    /\ call.height_mm = 4096 /\ call.width_mm = 4095
    /\ pc = "aborted"
    /\ D(PT_HACTIVE_LO) = 128 /\ D(PT_HACTIVE_LO) # prev[DtOff(call.slot) + PT_HACTIVE_LO]

\* C12: detailed_timing_set_string returns for exactly the subtypes monitor
\* name (0xFC), monitor string (0xFE) and monitor serial (0xFF); for any other
\* subtype it aborts before writing anything, the 128 bytes being what they
\* were before the call.
C12_SubtypeCheckedFirst ==
    Called("detailed_timing_set_string") =>
        /\ pc = "ready" <=> call.type \in {252, 254, 255}
        /\ call.type \notin {252, 254, 255} => (pc = "aborted" /\ edid = prev)

\* the monitor-range subtype refused on a descriptor whose tag bytes held
\* something else
C12_Witness ==
    /\ Called("detailed_timing_set_string")
    /\ call.type = 253
    /\ pc = "aborted"
    /\ D(DT_PIXEL_CLOCK) # 0 /\ D(NP_TYPE) \notin {0, 253}
    /\ Descriptor(call.slot) = Slice(prev, DtOff(call.slot), DETAILED_TIMING_SIZE)

\* the record before the last call was a finalized one: it carries the header
\* and its bytes sum to 0 modulo 256, as edid_update_checksum leaves them
PrevFinalized ==
    /\ Slice(prev, OFF_HEADER, 8) = <<0, 255, 255, 255, 255, 255, 255, 0>>
    /\ RangeSum(prev, 0, EDID_SIZE - 1) % 256 = 0

\* C13: edid_update_checksum writes only byte 127, never any of bytes 0..126;
\* called on a record whose bytes already sum to 0 modulo 256 it leaves byte
\* 127, and so all 128 bytes, unchanged; and a call that follows another
\* call of edid_update_checksum, nothing having modified the record between
\* the two, leaves the record as the first call left it.
C13_FinalizerIdempotent ==
    /\ [](Called("edid_update_checksum") =>
            /\ pc = "ready"
            /\ \A i \in 0 .. 126 : edid[i] = prev[i]
            /\ RangeSum(prev, 0, EDID_SIZE - 1) % 256 = 0 => edid = prev)
    /\ [][(Called("edid_update_checksum") /\ call'.op = "edid_update_checksum")
            => edid' = edid]_vars

\* the second of two calls in a row, on an initialized record whose checksum
\* byte is not 0
C13_Witness ==
    /\ Called("edid_update_checksum")
    /\ PrevFinalized
    /\ prev[OFF_CHECKSUM] # 0
    /\ edid = prev

\* bytes 0..7 of the record are 00 FF FF FF FF FF FF 00
HeaderIsMagic == Slice(edid, 0, 8) = <<0, 255, 255, 255, 255, 255, 255, 0>>

\* the calls that fill a descriptor slot or finalize the record
DescriptorAndChecksumCalls ==
    {"detailed_timing_set_mode", "detailed_timing_set_monitor_range_mode",
     "detailed_timing_set_string", "edid_update_checksum"}

\* C14: after edid_init or edid_init_with_mode bytes 0..7 are 00 FF FF FF FF
\* FF FF 00 whatever the record held before, and every later call of
\* detailed_timing_set_mode, detailed_timing_set_monitor_range_mode or
\* detailed_timing_set_string on one of the four slots, and of
\* edid_update_checksum, leaves them so.
C14_HeaderKept ==
    /\ []((Called("edid_init") \/ Called("edid_init_with_mode")) => HeaderIsMagic)
    /\ [][(HeaderIsMagic /\ call'.op \in DescriptorAndChecksumCalls)
            => HeaderIsMagic']_vars

\* a record initialized with a mode, its first slot then re-tagged as a
\* string, then finalized: three calls, the header still in place
C14_Witness ==
    /\ Called("edid_update_checksum")
    /\ HeaderIsMagic
    /\ edid[DtOff(0) + NP_TYPE] = EDID_DETAIL_MONITOR_NAME
    /\ edid[DtOff(1) + NP_TYPE] = EDID_DETAIL_MONITOR_RANGE
    /\ edid[OFF_CHECKSUM] # prev[OFF_CHECKSUM]

\* C15: whenever detailed_timing_set_mode returns, decoding the descriptor
\* recovers the mode: the stored pixel clock is clock/10, and the decoded
\* active, blank, sync offset and sync pulse width of both axes and width_mm
\* and height_mm are the values derived from the arguments, also when a
\* derived quantity is negative and when clock/10 exceeds 0xFFFF.
C15_ModeRecoveredWheneverReturned ==
    ReturnedFrom("detailed_timing_set_mode") =>
        /\ StoredPixelClock = call.mode.clock \div 10
        /\ D(2) + 256 * (D(4) \div 16) = call.mode.hdisplay
        /\ D(3) + 256 * (D(4) % 16) = call.mode.htotal - call.mode.hdisplay
        /\ D(5) + 256 * (D(7) \div 16) = call.mode.vdisplay
        /\ D(6) + 256 * (D(7) % 16) = call.mode.vtotal - call.mode.vdisplay
        /\ D(8) + 256 * (D(11) \div 64) = call.mode.hsync_start - call.mode.hdisplay
        /\ D(9) + 256 * ((D(11) \div 16) % 4) =
              call.mode.hsync_end - call.mode.hsync_start
        /\ (D(10) \div 16) + 16 * ((D(11) \div 4) % 4) =
              call.mode.vsync_start - call.mode.vdisplay
        /\ (D(10) % 16) + 16 * (D(11) % 4) =
              call.mode.vsync_end - call.mode.vsync_start
        /\ D(12) + 256 * (D(14) \div 16) = call.width_mm
        /\ D(13) + 256 * (D(14) % 16) = call.height_mm

\* the 18 bytes the arguments of the last string or monitor-range call
\* determine, reserved bytes 2 and 4 zero
StringDescriptorOf(type, str) ==
    <<0, 0, 0, type, 0>>
        \o [k \in 1 .. STR_SIZE |->
               IF k <= Len(str) THEN str[k] ELSE IF k = Len(str) + 1 THEN 10 ELSE 0]
RangeDescriptorOf(mode) ==
    <<0, 0, 0, 253, 0,
      (mode.vrefresh - 1) % 256, (mode.vrefresh + 1) % 256,
      ((mode.clock \div mode.htotal) - 1) % 256,
      ((mode.clock \div mode.htotal) + 1) % 256,
      ((mode.clock \div 10000) + 1) % 256, 0,
      10, 32, 32, 32, 32, 32, 32>>

\* C16: after detailed_timing_set_string or
\* detailed_timing_set_monitor_range_mode the 18 bytes of the slot are a
\* function of the call's arguments only, whatever the slot held before: no
\* byte of an earlier pixel timing or auxiliary record is left, and
\* descriptor bytes 2 and 4 are zero.
C16_SlotDependsOnArgumentsOnly ==
    /\ ReturnedFrom("detailed_timing_set_string") =>
          /\ D(NP_PAD1) = 0 /\ D(NP_PAD2) = 0
          /\ Descriptor(call.slot) = StringDescriptorOf(call.type, call.str)
    /\ (ReturnedFrom("detailed_timing_set_monitor_range_mode")
          /\ call.mode.htotal > 0) =>
          /\ D(NP_PAD1) = 0 /\ D(NP_PAD2) = 0
          /\ Descriptor(call.slot) = RangeDescriptorOf(call.mode)

====
